---------------------------- MODULE Spec2Model ----------------------------
(***************************************************************************)
(* A model of rct's Value (src/rct/Value.cpp): the tagged union with its  *)
(* clear()/copy() discipline, the bridge to and from cJSON parse trees     *)
(* (fromCJSON, toCJSON, fromJSON, toJSON) and the two formatters           *)
(* (JSONFormatter, StringFormatter).                                       *)
(*                                                                         *)
(* Text is a sequence of bytes (0..255).  A double is held in halves: the  *)
(* integer h stands for the double h/2, so 5.5 is 11 and 5.0 is 10.        *)
(***************************************************************************)
EXTENDS Integers, Sequences, FiniteSets

VARIABLES
    charSigned,   \* whether plain char is signed in this build
    fmtIn,        \* the Value handed to a formatter
    fmtOut,       \* the chunks the formatter passed to output(), in call order
    fmtPc,        \* "ready", "json" (JSONFormatter ran), "string" (StringFormatter ran)
    castUB,       \* what (int)d yields in this build when d is out of int's range
    jText,        \* the text register: fromJSON's argument, toJSON's result
    jVal,         \* the Value register: fromJSON's result, toJSON's *this
    jOk,          \* the caller's bool behind fromJSON's ok: "unset", "true", "false"
    jHasOk,       \* whether the running fromJSON was given a non-null ok
    jObj,         \* the running call's cJSON pointer: <<>> (NULL) or <<tree>>
    jPc,          \* where the running call stands, "idle" between calls
    jAllocs,      \* parse trees created by the running (or last) call
    jFrees,       \* cJSON_Delete calls of the running (or last) call
    jPretty,      \* the running (or last) toJSON's pretty argument
    jPrevVal,     \* jVal before the last fromJSON replaced it
    jPrevText,    \* jText before the last toJSON replaced it
    jTrail,       \* the calls completed so far, oldest first
    slots,        \* the Values clear() and copy() act on
    nextObj,      \* the identity the next String, Map or List constructed gets
    nextCustom,   \* the identity the next Custom payload made gets
    destroyed,    \* per payload identity, how often its destructor has run
    useCount,     \* per Custom payload, the shared_ptr use count
    lastOp,       \* the last operation: its name, the slot it acted on, copy's other
    aborted       \* whether an assert has failed

fmtVars == <<charSigned, fmtIn, fmtOut, fmtPc>>
jsonVars == <<castUB, jText, jVal, jOk, jHasOk, jObj, jPc, jAllocs, jFrees,
              jPretty, jPrevVal, jPrevText, jTrail>>
lifeVars == <<slots, nextObj, nextCustom, destroyed, useCount, lastOp, aborted>>
vars == <<fmtVars, jsonVars, lifeVars>>

-----------------------------------------------------------------------------
(* Bounds of the model *)

\* longest String payload drawn for the escaping checks
MaxStrLen == 2

\* most nodes (the value itself and all its descendants) of a drawn Value
MaxNodes == 3

\* width of int in bits
IntBits == 4

\* most fromJSON and toJSON calls in a run
MaxCalls == 4

\* most String, Map and List payloads constructed in a run
MaxObjs == 5

\* most Custom payloads made in a run
MaxCustoms == 1

-----------------------------------------------------------------------------
(* Values *)

\* A Value: mType and the active member of mData.  num holds the boolean
\* (0/1), the integer, the double (in halves), the date's time or the
\* identity of the Custom payload; str the String (or the Custom payload's
\* toString()); list the List<Value>; map the Map<String, Value> as its
\* entries in iteration (key) order.
MkValue(t, n, s, l, m) == [type |-> t, num |-> n, str |-> s, list |-> l, map |-> m]

VInvalid == MkValue("Invalid", 0, <<>>, <<>>, <<>>)
VUndefined == MkValue("Undefined", 0, <<>>, <<>>, <<>>)
VBool(b) == MkValue("Boolean", IF b THEN 1 ELSE 0, <<>>, <<>>, <<>>)
VInt(i) == MkValue("Integer", i, <<>>, <<>>, <<>>)
VDouble(h) == MkValue("Double", h, <<>>, <<>>, <<>>)
VString(s) == MkValue("String", 0, s, <<>>, <<>>)
VList(l) == MkValue("List", 0, <<>>, l, <<>>)
VMap(m) == MkValue("Map", 0, <<>>, <<>>, m)
VCustom(id, s) == MkValue("Custom", id, s, <<>>, <<>>)
VDate(t) == MkValue("Date", t, <<>>, <<>>, <<>>)

RECURSIVE SumSizes(_, _)
RECURSIVE Size(_)
\* number of Values in the tree rooted at v
Size(v) ==
    1 + SumSizes([i \in 1..Len(v.list) |-> Size(v.list[i])], Len(v.list))
      + SumSizes([i \in 1..Len(v.map) |-> Size(v.map[i][2])], Len(v.map))
SumSizes(f, n) == IF n = 0 THEN 0 ELSE f[n] + SumSizes(f, n - 1)

RECURSIVE Flatten(_)
\* the concatenation of a sequence of chunks
Flatten(chunks) ==
    IF chunks = <<>> THEN <<>> ELSE Head(chunks) \o Flatten(Tail(chunks))

RECURSIVE JoinWith(_, _)
\* the parts in order with sep between neighbours
JoinWith(sep, parts) ==
    IF parts = <<>> THEN <<>>
    ELSE IF Len(parts) = 1 THEN parts[1]
    ELSE parts[1] \o sep \o JoinWith(sep, Tail(parts))

\* every byte string of length at most n over the alphabet
RECURSIVE BytesUpTo(_, _)
BytesUpTo(alphabet, n) ==
    IF n = 0 THEN {<<>>}
    ELSE LET shorter == BytesUpTo(alphabet, n - 1)
         IN  shorter \cup {Append(s, b) : s \in shorter, b \in alphabet}

RECURSIVE SeqsWithin(_, _, _)
RECURSIVE MapsWithin(_, _, _, _)
RECURSIVE ValuesWithin(_, _, _)
\* every Value of at most n nodes whose leaves are drawn from scalars and
\* whose Map keys are drawn from keys (a sequence in ascending order)
ValuesWithin(scalars, keys, n) ==
    IF n = 0 THEN {}
    ELSE scalars
         \cup {VList(l) : l \in SeqsWithin(scalars, keys, n - 1)}
         \cup {VMap(m) : m \in MapsWithin(scalars, keys, 1, n - 1)}
\* every sequence of such Values of at most b nodes in total
SeqsWithin(scalars, keys, b) ==
    {<<>>} \cup UNION {{<<x>> \o r : r \in SeqsWithin(scalars, keys, b - Size(x))}
                        : x \in ValuesWithin(scalars, keys, b)}
\* every Map over keys[k..] of at most b nodes in total, entries in key order
MapsWithin(scalars, keys, k, b) ==
    IF k > Len(keys) THEN {<<>>}
    ELSE MapsWithin(scalars, keys, k + 1, b)
         \cup UNION {{<<(<<keys[k], x>>)>> \o r
                        : r \in MapsWithin(scalars, keys, k + 1, b - Size(x))}
                      : x \in ValuesWithin(scalars, keys, b)}

-----------------------------------------------------------------------------
(* int and double *)

\* the smallest and largest int (IntBits wide, two's complement)
IntMax == 2 ^ (IntBits - 1) - 1
IntMin == -(2 ^ (IntBits - 1))

\* the double h/2 rounded toward zero
Truncate(h) == IF h < 0 THEN -((-h) \div 2) ELSE h \div 2

\* (int)d for the double d = h/2: the truncation when an int can hold it;
\* otherwise the conversion is undefined and yields whatever this build yields
ToInt(h) ==
    IF Truncate(h) >= IntMin /\ Truncate(h) <= IntMax THEN Truncate(h) ELSE castUB

-----------------------------------------------------------------------------
(* printf conversions *)

RECURSIVE DecDigits(_)
\* the decimal digits of n >= 0
DecDigits(n) ==
    IF n < 10 THEN <<48 + n>> ELSE DecDigits(n \div 10) \o <<48 + (n % 10)>>

\* snprintf(buf, sizeof(buf), "%d", i)
FormatD(i) == IF i < 0 THEN <<45>> \o DecDigits(-i) ELSE DecDigits(i)

\* snprintf(buf, sizeof(buf), "%g", h/2), for |h/2| < 10^5 (no exponent form)
FormatG(h) ==
    LET a == IF h < 0 THEN -h ELSE h
        body == DecDigits(a \div 2) \o (IF a % 2 = 1 THEN <<46, 53>> ELSE <<>>)
    IN  IF h < 0 THEN <<45>> \o body ELSE body

\* one lowercase hexadecimal digit
HexDigit(d) == IF d < 10 THEN 48 + d ELSE 97 + (d - 10)

RECURSIVE HexDigits(_)
\* the hexadecimal digits of n >= 0
HexDigits(n) ==
    IF n < 16 THEN <<HexDigit(n)>>
    ELSE HexDigits(n \div 16) \o <<HexDigit(n % 16)>>

\* "%04x" of the int c (a promoted char): an unsigned int conversion padded
\* with zeros to four digits.  A negative c in -128..-1 converts to
\* 0xffffff00 + (c + 256).
FormatX04(c) ==
    IF c < 0
    THEN <<102, 102, 102, 102, 102, 102>> \o HexDigits(c + 256)
    ELSE LET d == HexDigits(c)
         IN  [i \in 1..(4 - Len(d)) |-> 48] \o d

\* snprintf(buffer, size, ...): at most size - 1 bytes of the text are kept
Snprintf(size, text) ==
    IF Len(text) > size - 1 THEN SubSeq(text, 1, size - 1) ELSE text

\* "%*s" of the string s under width w: s right-justified, padded with blanks
PadLeft(w, s) == [i \in 1..(w - Len(s)) |-> 32] \o s

\* String::formatTime: the time-formatting collaborator (text of a timestamp)
FormatTime(t) == <<84>> \o FormatD(t)

\* output(data, len): the sink receives the first len bytes of data
Output(out, data, len) == Append(out, SubSeq(data, 1, len))

-----------------------------------------------------------------------------
(* JSONFormatter *)

\* const char ch = stringData[i]: the byte as a plain char of this build
CharOf(b) == IF charSigned /\ b >= 128 THEN b - 256 ELSE b

\* the cases of the switch that call put() with a two-character escape
ShortEscape(ch) ==
    CASE ch = 8 -> <<92, 98>>      \* \b
      [] ch = 12 -> <<92, 102>>    \* \f
      [] ch = 10 -> <<92, 110>>    \* \n
      [] ch = 9 -> <<92, 116>>     \* \t
      [] ch = 13 -> <<92, 114>>    \* \r
      [] ch = 34 -> <<92, 34>>     \* \"
      [] ch = 92 -> <<92, 92>>     \* \\
      [] OTHER -> <<>>

\* whether the switch reaches put() for ch
NeedsEscape(ch) == ShortEscape(ch) # <<>> \/ ch < 32 \/ ch = 127

\* the text handed to put() for ch
EscapedText(ch) ==
    IF ShortEscape(ch) # <<>> THEN ShortEscape(ch)
    ELSE Snprintf(7, <<92, 117>> \o FormatX04(ch))

\* put(escaped) at position i: the first call flushes the unescaped prefix
Put(str, i, hasEscaped, out, escaped) ==
    LET flushed == IF ~hasEscaped /\ i # 0 THEN Output(out, str, i) ELSE out
    IN  Output(flushed, escaped, Len(escaped))

RECURSIVE EscapeLoop(_, _, _, _)
\* for (i = 0; i < length; ++i) switch (ch) ...; yields hasEscaped and the output
EscapeLoop(str, i, hasEscaped, out) ==
    IF i >= Len(str) THEN [hasEscaped |-> hasEscaped, out |-> out]
    ELSE LET ch == CharOf(str[i + 1])
         IN  IF NeedsEscape(ch)
             THEN EscapeLoop(str, i + 1, TRUE,
                             Put(str, i, hasEscaped, out, EscapedText(ch)))
             ELSE IF hasEscaped
                  THEN EscapeLoop(str, i + 1, TRUE, Append(out, <<str[i + 1]>>))
                  ELSE EscapeLoop(str, i + 1, FALSE, out)

\* the escape lambda: quote, escaped body, quote
Escape(str, out) ==
    LET r == EscapeLoop(str, 0, FALSE, Output(out, <<34>>, 1))
        body == IF ~r.hasEscaped THEN Output(r.out, str, Len(str)) ELSE r.out
    IN  Output(body, <<34>>, 1)

RECURSIVE JSONFormat(_, _)
RECURSIVE JSONMapLoop(_, _, _, _)
RECURSIVE JSONListLoop(_, _, _, _)
\* JSONFormatter::format(value, output): the output after the call
JSONFormat(value, out) ==
    CASE value.type \in {"Invalid", "Undefined"} -> Output(out, <<110, 117, 108, 108>>, 4)
      [] value.type = "Boolean" ->
            IF value.num = 1 THEN Output(out, <<116, 114, 117, 101>>, 4)
            ELSE Output(out, <<102, 97, 108, 115, 101>>, 5)
      [] value.type = "Integer" -> Append(out, FormatD(value.num))
      [] value.type = "Double" -> Append(out, FormatG(value.num))
      [] value.type = "String" -> Escape(value.str, out)
      [] value.type = "Custom" -> Escape(value.str, out)
      [] value.type = "Map" ->
            Output(JSONMapLoop(value.map, 1, TRUE, Output(out, <<123>>, 1)), <<125>>, 1)
      [] value.type = "List" ->
            Output(JSONListLoop(value.list, 1, TRUE, Output(out, <<91>>, 1)), <<93>>, 1)
      [] value.type = "Date" -> Escape(FormatTime(value.num), out)
\* for (auto it = value.begin(); it != end; ++it), from entry k on
JSONMapLoop(m, k, first, out) ==
    IF k > Len(m) THEN out
    ELSE LET sep == IF ~first THEN Output(out, <<44>>, 1) ELSE out
             key == Escape(m[k][1], sep)
         IN  JSONMapLoop(m, k + 1, FALSE, JSONFormat(m[k][2], Output(key, <<58>>, 1)))
\* the List loop writing the comma before every element, the first included
JSONListLoop_WithoutFirst(l, k, first, out) ==
    IF k > Len(l) THEN out
    ELSE JSONListLoop(l, k + 1, FALSE, JSONFormat(l[k], Output(out, <<44>>, 1)))

\* for (auto it = value.listBegin(); it != end; ++it), from element k on
JSONListLoop(l, k, first, out) ==
    IF k > Len(l) THEN out
    ELSE LET sep == IF ~first THEN Output(out, <<44>>, 1) ELSE out
         IN  JSONListLoop(l, k + 1, FALSE, JSONFormat(l[k], sep))

-----------------------------------------------------------------------------
(* StringFormatter *)

RECURSIVE StringFormat(_, _, _)
RECURSIVE StringMapLoop(_, _, _, _)
RECURSIVE StringListLoop(_, _, _, _, _)
\* StringFormatter::format(value, output) entered with the member indent:
\* the output after the call (indent is restored by every case)
StringFormat(value, indent, out) ==
    LET str == CASE value.type \in {"String", "Custom"} -> value.str
                 [] value.type = "Date" -> FormatTime(value.num)
                 [] OTHER -> <<>>
        done ==
            CASE value.type \in {"Invalid", "Undefined"} ->
                    Output(out, <<110, 117, 108, 108>>, 4)
              [] value.type = "Boolean" ->
                    IF value.num = 1 THEN Output(out, <<116, 114, 117, 101>>, 4)
                    ELSE Output(out, <<102, 97, 108, 115, 101>>, 5)
              [] value.type = "Integer" -> Append(out, FormatD(value.num))
              [] value.type = "Double" -> Append(out, FormatG(value.num))
              [] value.type = "Map" -> StringMapLoop(value.map, 1, indent + 1, out)
              [] value.type = "List" ->
                    Output(StringListLoop(value.list, 1, TRUE, indent,
                                          Output(out, <<91, 32>>, 1)),
                           <<32, 93>>, 2)
              [] OTHER -> out
    IN  IF str # <<>> THEN Output(done, str, Len(str)) ELSE done
\* the Map loop from entry k on, indent already incremented
StringMapLoop(m, k, indent, out) ==
    IF k > Len(m) THEN out
    ELSE LET head == PadLeft(indent - 1, <<32>>) \o m[k][1] \o <<58, 32>>
             str == head \o Flatten(StringFormat(m[k][2], indent, <<>>))
         IN  StringMapLoop(m, k + 1, indent,
                           Output(Output(out, str, Len(str)), <<10>>, 1))
\* the List loop from element k on
StringListLoop(l, k, first, indent, out) ==
    IF k > Len(l) THEN out
    ELSE LET sep == IF ~first THEN Output(out, <<44, 32>>, 1) ELSE out
         IN  StringListLoop(l, k + 1, FALSE, indent, StringFormat(l[k], indent, sep))

\* Formatter::toString(value): the chunks appended to one String
FormatterToString(chunks) == Flatten(chunks)

-----------------------------------------------------------------------------
(* cJSON: the parse tree and the library's constructors, printer and parser *)

\* A cJSON item.  type is the item's kind; valueint and valuedouble (in
\* halves) the number; valuestring the string; string the item's name in
\* its Object; child the children in order.
MkItem(t, vi, vd, vs, name, kids) ==
    [type |-> t, valueint |-> vi, valuedouble |-> vd, valuestring |-> vs,
     string |-> name, child |-> kids]

cJSON_CreateNull == MkItem("NULL", 0, 0, <<>>, <<>>, <<>>)
cJSON_CreateTrue == MkItem("True", 0, 0, <<>>, <<>>, <<>>)
cJSON_CreateFalse == MkItem("False", 0, 0, <<>>, <<>>, <<>>)
\* cJSON_CreateNumber(num): valuedouble = num, valueint = (int)num
cJSON_CreateNumber(h) == MkItem("Number", ToInt(h), h, <<>>, <<>>, <<>>)
cJSON_CreateString(s) == MkItem("String", 0, 0, s, <<>>, <<>>)
cJSON_CreateArray == MkItem("Array", 0, 0, <<>>, <<>>, <<>>)
cJSON_CreateObject == MkItem("Object", 0, 0, <<>>, <<>>, <<>>)
cJSON_AddItemToArray(array, item) ==
    [array EXCEPT !.child = Append(@, item)]
cJSON_AddItemToObject(object, name, item) ==
    [object EXCEPT !.child = Append(@, [item EXCEPT !.string = name])]

RECURSIVE CStr(_)
\* the C string a char pointer to these bytes denotes: the bytes before the
\* first NUL
CStr(s) ==
    IF s = <<>> \/ Head(s) = 0 THEN <<>> ELSE <<Head(s)>> \o CStr(Tail(s))

\* print_number: an int when the number is one, else the double
PrintNumber(item) ==
    IF item.valuedouble = 2 * item.valueint THEN FormatD(item.valueint)
    ELSE FormatG(item.valuedouble)

\* print_string_ptr, per byte
PrintEscape(b) ==
    CASE b = 34 -> <<92, 34>>
      [] b = 92 -> <<92, 92>>
      [] b = 8 -> <<92, 98>>
      [] b = 12 -> <<92, 102>>
      [] b = 10 -> <<92, 110>>
      [] b = 13 -> <<92, 114>>
      [] b = 9 -> <<92, 116>>
      [] OTHER -> IF b < 32 THEN <<92, 117>> \o FormatX04(b) ELSE <<b>>

\* print_string_ptr: the quoted, escaped string
PrintString(s) ==
    <<34>> \o Flatten([i \in 1..Len(s) |-> PrintEscape(s[i])]) \o <<34>>

\* n tab characters
Tabs(n) == [i \in 1..n |-> 9]

RECURSIVE PrintValue(_, _, _)
\* print_value(item, depth, fmt)
PrintValue(item, depth, fmt) ==
    CASE item.type = "NULL" -> <<110, 117, 108, 108>>
      [] item.type = "False" -> <<102, 97, 108, 115, 101>>
      [] item.type = "True" -> <<116, 114, 117, 101>>
      [] item.type = "Number" -> PrintNumber(item)
      [] item.type = "String" -> PrintString(item.valuestring)
      [] item.type = "RawString" -> item.valuestring
      [] item.type = "Array" ->
            <<91>>
            \o JoinWith(IF fmt THEN <<44, 32>> ELSE <<44>>,
                        [i \in 1..Len(item.child) |->
                            PrintValue(item.child[i], depth + 1, fmt)])
            \o <<93>>
      [] item.type = "Object" ->
            <<123>> \o (IF fmt THEN <<10>> ELSE <<>>)
            \o Flatten([i \in 1..Len(item.child) |->
                  (IF fmt THEN Tabs(depth + 1) ELSE <<>>)
                  \o PrintString(item.child[i].string) \o <<58>>
                  \o (IF fmt THEN <<9>> ELSE <<>>)
                  \o PrintValue(item.child[i], depth + 1, fmt)
                  \o (IF i < Len(item.child) THEN <<44>> ELSE <<>>)
                  \o (IF fmt THEN <<10>> ELSE <<>>)])
            \o (IF fmt THEN Tabs(depth) ELSE <<>>) \o <<125>>

cJSON_Print(item) == PrintValue(item, 0, TRUE)
cJSON_PrintUnformatted(item) == PrintValue(item, 0, FALSE)

\* a failed parse
NoParse == [ok |-> FALSE, item |-> cJSON_CreateNull, pos |-> 0]
Parsed(item, pos) == [ok |-> TRUE, item |-> item, pos |-> pos]

RECURSIVE Skip(_, _)
\* skip(in): the first position at or after p that holds no whitespace
Skip(t, p) == IF p <= Len(t) /\ t[p] <= 32 THEN Skip(t, p + 1) ELSE p

\* whether the bytes of word stand in t at p
MatchAt(t, p, word) ==
    /\ p + Len(word) - 1 <= Len(t)
    /\ \A i \in 1..Len(word) : t[p + i - 1] = word[i]

IsDigit(b) == b >= 48 /\ b <= 57

\* the value of a hexadecimal digit, -1 for any other byte
HexValue(b) ==
    IF IsDigit(b) THEN b - 48
    ELSE IF b >= 97 /\ b <= 102 THEN b - 87
    ELSE IF b >= 65 /\ b <= 70 THEN b - 55
    ELSE -1

RECURSIVE ScanDigits(_, _, _)
\* the digits of t from p on: their value (after acc) and where they end
ScanDigits(t, p, acc) ==
    IF p <= Len(t) /\ IsDigit(t[p]) THEN ScanDigits(t, p + 1, 10 * acc + (t[p] - 48))
    ELSE [n |-> acc, pos |-> p]

RECURSIVE ScanZeros(_, _)
\* the position after the zeros of t from p on
ScanZeros(t, p) == IF p <= Len(t) /\ t[p] = 48 THEN ScanZeros(t, p + 1) ELSE p

\* parse_number at p: sign, integer part, fraction (.0 or .5, the fractions
\* a double in halves can hold)
ParseNumber(t, p) ==
    LET neg == t[p] = 45
        start == IF neg THEN p + 1 ELSE p
        whole == ScanDigits(t, start, 0)
        dot == whole.pos <= Len(t) /\ t[whole.pos] = 46
               /\ whole.pos + 1 <= Len(t) /\ IsDigit(t[whole.pos + 1])
        half == dot /\ t[whole.pos + 1] = 53
        fracEnd == IF dot
                   THEN ScanZeros(t, IF half THEN whole.pos + 2 ELSE whole.pos + 1)
                   ELSE whole.pos
        mag == 2 * whole.n + (IF half THEN 1 ELSE 0)
    IN  IF whole.pos = start \/ (fracEnd <= Len(t) /\ IsDigit(t[fracEnd])) THEN NoParse
        ELSE Parsed(cJSON_CreateNumber(IF neg THEN -mag ELSE mag), fracEnd)

\* the UTF-8 bytes of a code point below 0x10000
Utf8(uc) ==
    IF uc < 128 THEN <<uc>>
    ELSE IF uc < 2048 THEN <<192 + (uc \div 64), 128 + (uc % 64)>>
    ELSE <<224 + (uc \div 4096), 128 + ((uc \div 64) % 64), 128 + (uc % 64)>>

RECURSIVE ScanString(_, _, _)
\* parse_string past the opening quote: the bytes up to the closing quote
ScanString(t, p, acc) ==
    IF p > Len(t) THEN [ok |-> FALSE, s |-> acc, pos |-> p]
    ELSE IF t[p] = 34 THEN [ok |-> TRUE, s |-> acc, pos |-> p + 1]
    ELSE IF t[p] # 92 THEN ScanString(t, p + 1, Append(acc, t[p]))
    ELSE IF p + 1 > Len(t) THEN [ok |-> FALSE, s |-> acc, pos |-> p]
    ELSE LET e == t[p + 1]
         IN  IF e = 117
             THEN IF p + 5 > Len(t) \/ \E i \in 2..5 : HexValue(t[p + i]) < 0
                  THEN [ok |-> FALSE, s |-> acc, pos |-> p]
                  ELSE LET uc == 4096 * HexValue(t[p + 2]) + 256 * HexValue(t[p + 3])
                                 + 16 * HexValue(t[p + 4]) + HexValue(t[p + 5])
                       IN  IF uc = 0 THEN [ok |-> FALSE, s |-> acc, pos |-> p]
                           ELSE ScanString(t, p + 6, acc \o Utf8(uc))
             ELSE ScanString(t, p + 2,
                             Append(acc, CASE e = 98 -> 8
                                           [] e = 102 -> 12
                                           [] e = 110 -> 10
                                           [] e = 114 -> 13
                                           [] e = 116 -> 9
                                           [] OTHER -> e))

RECURSIVE ParseValue(_, _)
RECURSIVE ParseArray(_, _, _)
RECURSIVE ParseObject(_, _, _)
\* parse_value at p
ParseValue(t, p) ==
    IF p > Len(t) THEN NoParse
    ELSE IF MatchAt(t, p, <<110, 117, 108, 108>>) THEN Parsed(cJSON_CreateNull, p + 4)
    ELSE IF MatchAt(t, p, <<102, 97, 108, 115, 101>>) THEN Parsed(cJSON_CreateFalse, p + 5)
    ELSE IF MatchAt(t, p, <<116, 114, 117, 101>>) THEN Parsed(cJSON_CreateTrue, p + 4)
    ELSE IF t[p] = 34
         THEN LET r == ScanString(t, p + 1, <<>>)
              IN  IF r.ok THEN Parsed(cJSON_CreateString(r.s), r.pos) ELSE NoParse
    ELSE IF t[p] = 45 \/ IsDigit(t[p]) THEN ParseNumber(t, p)
    ELSE IF t[p] = 91
         THEN LET q == Skip(t, p + 1)
              IN  IF q <= Len(t) /\ t[q] = 93 THEN Parsed(cJSON_CreateArray, q + 1)
                  ELSE ParseArray(t, q, cJSON_CreateArray)
    ELSE IF t[p] = 123
         THEN LET q == Skip(t, p + 1)
              IN  IF q <= Len(t) /\ t[q] = 125 THEN Parsed(cJSON_CreateObject, q + 1)
                  ELSE ParseObject(t, q, cJSON_CreateObject)
    ELSE NoParse
\* parse_array: the elements from p on, after those of array
ParseArray(t, p, array) ==
    LET r == ParseValue(t, p)
        q == Skip(t, r.pos)
    IN  IF ~r.ok \/ q > Len(t) THEN NoParse
        ELSE IF t[q] = 44
             THEN ParseArray(t, Skip(t, q + 1), cJSON_AddItemToArray(array, r.item))
        ELSE IF t[q] = 93 THEN Parsed(cJSON_AddItemToArray(array, r.item), q + 1)
        ELSE NoParse
\* parse_object: the members from p on, after those of object
ParseObject(t, p, object) ==
    IF p > Len(t) \/ t[p] # 34 THEN NoParse
    ELSE LET name == ScanString(t, p + 1, <<>>)
             colon == Skip(t, name.pos)
         IN  IF ~name.ok \/ colon > Len(t) \/ t[colon] # 58 THEN NoParse
             ELSE LET r == ParseValue(t, Skip(t, colon + 1))
                      q == Skip(t, r.pos)
                      grown == cJSON_AddItemToObject(object, name.s, r.item)
                  IN  IF ~r.ok \/ q > Len(t) THEN NoParse
                      ELSE IF t[q] = 44 THEN ParseObject(t, Skip(t, q + 1), grown)
                      ELSE IF t[q] = 125 THEN Parsed(grown, q + 1)
                      ELSE NoParse

\* cJSON_Parse(json): <<root>>, or <<>> (NULL) when json is no JSON document
cJSON_Parse(json) ==
    LET r == ParseValue(json, Skip(json, 1))
    IN  IF r.ok /\ Skip(json, r.pos) > Len(json) THEN <<r.item>> ELSE <<>>

-----------------------------------------------------------------------------
(* The bridge between Value and cJSON *)

RECURSIVE Less(_, _)
\* String's operator<: byte-wise lexicographic order
Less(a, b) ==
    IF b = <<>> THEN FALSE
    ELSE IF a = <<>> THEN TRUE
    ELSE IF Head(a) # Head(b) THEN Head(a) < Head(b)
    ELSE Less(Tail(a), Tail(b))

RECURSIVE MapSet(_, _, _)
\* Map<String, Value>: values[key] = v, on the entries in key order
MapSet(m, key, v) ==
    IF m = <<>> THEN << <<key, v>> >>
    ELSE IF Head(m)[1] = key THEN << <<key, v>> >> \o Tail(m)
    ELSE IF Less(key, Head(m)[1]) THEN << <<key, v>> >> \o m
    ELSE <<Head(m)>> \o MapSet(Tail(m), key, v)

RECURSIVE fromCJSON(_)
RECURSIVE fromCJSONObject(_, _, _)
\* fromCJSON() testing only that the number has no fraction
fromCJSON_WholeNumberTest(object) ==
    CASE object.type = "False" -> VBool(FALSE)
      [] object.type = "True" -> VBool(TRUE)
      [] object.type = "NULL" -> VInvalid
      [] object.type = "Number" ->
            IF object.valuedouble % 2 = 0 THEN VInt(object.valueint)
            ELSE VDouble(object.valuedouble)
      [] object.type = "String" -> VString(object.valuestring)
      [] object.type = "Array" ->
            VList([i \in 1..Len(object.child) |-> fromCJSON(object.child[i])])
      [] object.type = "Object" -> VMap(fromCJSONObject(object.child, 1, <<>>))
      [] OTHER -> VInvalid

\* fromCJSON(object)
fromCJSON(object) ==
    CASE object.type = "False" -> VBool(FALSE)
      [] object.type = "True" -> VBool(TRUE)
      [] object.type = "NULL" -> VInvalid
      [] object.type = "Number" ->
            IF 2 * object.valueint = object.valuedouble THEN VInt(object.valueint)
            ELSE VDouble(object.valuedouble)
      [] object.type = "String" -> VString(object.valuestring)
      [] object.type = "Array" ->
            VList([i \in 1..Len(object.child) |-> fromCJSON(object.child[i])])
      [] object.type = "Object" -> VMap(fromCJSONObject(object.child, 1, <<>>))
      [] OTHER -> VInvalid
\* the Object loop from child k on: values[child->string] = fromCJSON(child)
fromCJSONObject(kids, k, values) ==
    IF k > Len(kids) THEN values
    ELSE fromCJSONObject(kids, k + 1,
                         MapSet(values, kids[k].string, fromCJSON(kids[k])))

RECURSIVE toCJSON(_)
RECURSIVE toCJSONList(_, _, _)
RECURSIVE toCJSONMap(_, _, _)
\* toCJSON() passing toInteger() for a Double
toCJSON_DoubleAsInteger(value) ==
    CASE value.type = "Boolean" ->
            IF value.num = 1 THEN cJSON_CreateTrue ELSE cJSON_CreateFalse
      [] value.type \in {"Date", "Integer"} -> cJSON_CreateNumber(2 * value.num)
      [] value.type = "Double" -> cJSON_CreateNumber(2 * Truncate(value.num))
      [] value.type = "String" -> cJSON_CreateString(CStr(value.str))
      [] value.type = "List" -> toCJSONList(value.list, 1, cJSON_CreateArray)
      [] value.type = "Map" -> toCJSONMap(value.map, 1, cJSON_CreateObject)
      [] value.type = "Custom" ->
            [cJSON_CreateString(CStr(value.str)) EXCEPT !.type = "RawString"]
      [] OTHER -> cJSON_CreateNull

\* toCJSON() with the branches of the Boolean case exchanged
toCJSON_BooleanInverted(value) ==
    CASE value.type = "Boolean" ->
            IF value.num = 1 THEN cJSON_CreateFalse ELSE cJSON_CreateTrue
      [] value.type \in {"Date", "Integer"} -> cJSON_CreateNumber(2 * value.num)
      [] value.type = "Double" -> cJSON_CreateNumber(value.num)
      [] value.type = "String" -> cJSON_CreateString(CStr(value.str))
      [] value.type = "List" -> toCJSONList(value.list, 1, cJSON_CreateArray)
      [] value.type = "Map" -> toCJSONMap(value.map, 1, cJSON_CreateObject)
      [] value.type = "Custom" ->
            [cJSON_CreateString(CStr(value.str)) EXCEPT !.type = "RawString"]
      [] OTHER -> cJSON_CreateNull

\* Value::toCJSON(value)
toCJSON(value) ==
    CASE value.type = "Boolean" ->
            IF value.num = 1 THEN cJSON_CreateTrue ELSE cJSON_CreateFalse
      [] value.type \in {"Date", "Integer"} -> cJSON_CreateNumber(2 * value.num)
      [] value.type = "Double" -> cJSON_CreateNumber(value.num)
      [] value.type = "String" -> cJSON_CreateString(CStr(value.str))
      [] value.type = "List" -> toCJSONList(value.list, 1, cJSON_CreateArray)
      [] value.type = "Map" -> toCJSONMap(value.map, 1, cJSON_CreateObject)
      [] value.type = "Custom" ->
            [cJSON_CreateString(CStr(value.str)) EXCEPT !.type = "RawString"]
      [] OTHER -> cJSON_CreateNull
\* for (const auto &v : *value.listPtr()), from element k on
toCJSONList(l, k, array) ==
    IF k > Len(l) THEN array
    ELSE toCJSONList(l, k + 1, cJSON_AddItemToArray(array, toCJSON(l[k])))
\* for (const auto &v : *value.mapPtr()), from entry k on
toCJSONMap(m, k, object) ==
    IF k > Len(m) THEN object
    ELSE toCJSONMap(m, k + 1,
                    cJSON_AddItemToObject(object, CStr(m[k][1]), toCJSON(m[k][2])))

-----------------------------------------------------------------------------
(* The formatters as a state machine: a Value is drawn, then one of the   *)
(* two formatters runs on it.                                              *)

\* bytes drawn for String payloads: every case of the escape switch, the
\* bounds of the \u00XX range, printable bytes and bytes above 127
FmtBytes == {0, 8, 9, 10, 12, 13, 31, 32, 34, 92, 120, 127, 128, 255}

\* leaves of the composite Values drawn
FmtScalars ==
    {VInvalid, VBool(TRUE), VInt(1), VDouble(3), VString(<<120>>),
     VString(<<34, 10>>), VCustom(1, <<99>>)}

\* Map keys drawn, in ascending order: a and b"
FmtKeys == << <<97>>, <<98, 34>> >>

FmtValues ==
    {VString(s) : s \in BytesUpTo(FmtBytes, MaxStrLen)}
    \cup {VInt(-12), VInt(305), VDouble(-25), VBool(FALSE), VUndefined, VDate(7)}
    \cup ValuesWithin(FmtScalars, FmtKeys, MaxNodes)

\* the bridge's variables while the formatters are modelled
JsonParked ==
    /\ castUB = 0
    /\ jText = <<>>
    /\ jVal = VInvalid
    /\ jOk = "unset"
    /\ jHasOk = FALSE
    /\ jObj = <<>>
    /\ jPc = "parked"
    /\ jAllocs = 0
    /\ jFrees = 0
    /\ jPretty = FALSE
    /\ jPrevVal = VInvalid
    /\ jPrevText = <<>>
    /\ jTrail = <<>>

\* the Values of clear() and copy() while other operations are modelled
LifeParked ==
    /\ slots = <<>>
    /\ nextObj = 1
    /\ nextCustom = 1
    /\ destroyed = <<>>
    /\ useCount = <<>>
    /\ lastOp = [op |-> "none", dst |-> 1, src |-> 1]
    /\ aborted = FALSE

InitFmt ==
    /\ JsonParked
    /\ LifeParked
    /\ charSigned \in BOOLEAN
    /\ fmtIn \in FmtValues
    /\ fmtOut = <<>>
    /\ fmtPc = "ready"

\* JSONFormatter().format(fmtIn, output)
RunJSONFormatter ==
    /\ fmtPc = "ready"
    /\ fmtOut' = JSONFormat(fmtIn, <<>>)
    /\ fmtPc' = "json"
    /\ UNCHANGED <<charSigned, fmtIn, jsonVars, lifeVars>>

\* StringFormatter().format(fmtIn, output), as Value::format() runs it
RunStringFormatter ==
    /\ fmtPc = "ready"
    /\ fmtOut' = StringFormat(fmtIn, 0, <<>>)
    /\ fmtPc' = "string"
    /\ UNCHANGED <<charSigned, fmtIn, jsonVars, lifeVars>>

NextFmt == RunJSONFormatter \/ RunStringFormatter

SpecFmt == InitFmt /\ [][NextFmt]_vars

-----------------------------------------------------------------------------
(* fromJSON and toJSON as a state machine: a text register and a Value    *)
(* register feed each other.  fromJSON reads the text and replaces the    *)
(* Value; toJSON reads the Value and replaces the text.                    *)

\* leaves of the composite Values drawn: 5.5 and 5.0 among the doubles
JLeaves == {VBool(TRUE), VInt(5), VDouble(11), VDouble(10), VString(<<120>>)}

\* Map keys drawn, in ascending order: a and b
JKeys == << <<97>>, <<98>> >>

\* Values drawn whose numbers an int can hold after truncation
JValues ==
    ValuesWithin(JLeaves, JKeys, MaxNodes)
    \cup {VBool(FALSE), VInt(0), VInt(IntMin), VInt(IntMax), VDouble(-3),
          VString(<<>>), VString(<<34, 92, 10>>), VString(<<120, 0, 121>>),
          VString(<<200, 7>>), VMap(<< <<(<<97, 0, 98>>), VInt(1)>> >>),
          VInvalid, VUndefined, VDate(3), VCustom(1, <<99>>),
          VList(<<VInvalid, VCustom(1, <<99>>)>>)}

\* Values drawn with a double beyond int's range
JWideValues ==
    {VDouble(2 * IntMax + 2), VDouble(2 * IntMin - 3), VDouble(4 * IntMax),
     VList(<<VDouble(2 * IntMax + 3)>>)}

\* leaves of the parse trees drawn
ItemLeaves ==
    {cJSON_CreateNull, MkItem("Number", 5, 10, <<>>, <<>>, <<>>),
     MkItem("Number", 5, 11, <<>>, <<>>, <<>>)}

RECURSIVE ItemSize(_)
\* number of items in the tree rooted at item
ItemSize(item) ==
    1 + SumSizes([i \in 1..Len(item.child) |-> ItemSize(item.child[i])], Len(item.child))

RECURSIVE ItemSeqsWithin(_, _, _)
RECURSIVE ItemsWithin(_)
\* every parse tree of at most n items over ItemLeaves; the members of an
\* Object are named a or b, in any order and with repeats
ItemsWithin(n) ==
    IF n = 0 THEN {}
    ELSE ItemLeaves
         \cup {[cJSON_CreateArray EXCEPT !.child = kids]
                 : kids \in ItemSeqsWithin({<<>>}, n - 1, 1)}
         \cup {[cJSON_CreateObject EXCEPT !.child = kids]
                 : kids \in ItemSeqsWithin({<<97>>, <<98>>}, n - 1, 1)}
\* every sequence of such trees of at most b items in total, each named
\* from names
ItemSeqsWithin(names, b, dummy) ==
    {<<>>} \cup UNION {{<<[x EXCEPT !.string = nm]>> \o r
                          : r \in ItemSeqsWithin(names, b - ItemSize(x), dummy),
                            nm \in names}
                        : x \in ItemsWithin(b)}

\* texts drawn whose numbers an int can hold after truncation: the drawn
\* parse trees printed, numbers with a fraction of zero, texts with
\* whitespace, escapes and a non-ASCII byte, and texts that are no JSON
JTexts ==
    {cJSON_PrintUnformatted(item) : item \in ItemsWithin(MaxNodes)}
    \cup {<<53, 46, 48>>,                               \* 5.0
          <<45, 48, 46, 53>>,                           \* -0.5
          <<32, 91, 32, 49, 32, 44, 10, 116, 114, 117, 101, 32, 93, 32>>,
                                                        \* [ 1 ,\ntrue ]
          <<34, 92, 110, 92, 117, 48, 48, 101, 57, 200, 34>>,  \* "\né<200>"
          <<123, 34, 98, 34, 58, 102, 97, 108, 115, 101, 44, 34, 97, 34, 58,
            91, 93, 125>>,                              \* {"b":false,"a":[]}
          <<>>,                                         \* empty
          <<91, 49, 44>>,                               \* [1,
          <<110, 117, 108>>,                            \* nul
          <<123, 34, 97, 34, 125>>,                     \* {"a"}
          <<91, 49, 93, 120>>,                          \* [1]x
          <<34, 97, 98>>,                               \* "ab
          <<123, 34, 97, 34, 58, 49, 44, 125>>,         \* {"a":1,}
          <<99>>}                                       \* c

\* texts drawn with a number beyond int's range
JWideTexts ==
    {DecDigits(IntMax + 1), <<45>> \o DecDigits(IntMax + 2) \o <<46, 53>>,
     <<91>> \o DecDigits(2 * IntMax) \o <<93>>}

\* the formatters' variables while fromJSON and toJSON are modelled
FmtParked ==
    /\ charSigned = FALSE
    /\ fmtIn = VInvalid
    /\ fmtOut = <<>>
    /\ fmtPc = "parked"

\* a completed call: fromJSON with whether the text was accepted, or
\* toJSON with its pretty argument
Call(op, flag) == [op |-> op, flag |-> flag]

InitJSON ==
    /\ FmtParked
    /\ LifeParked
    /\ \/ /\ jVal \in JValues \cup JWideValues
          /\ castUB \in IF jVal \in JWideValues THEN IntMin..IntMax ELSE {0}
          /\ jText = <<>>
          /\ jTrail = <<Call("value", FALSE)>>
       \/ /\ jText \in JTexts \cup JWideTexts
          /\ castUB \in IF jText \in JWideTexts THEN IntMin..IntMax ELSE {0}
          /\ jVal = VInvalid
          /\ jTrail = <<Call("text", FALSE)>>
    /\ jOk = "unset"
    /\ jHasOk = FALSE
    /\ jObj = <<>>
    /\ jPc = "idle"
    /\ jAllocs = 0
    /\ jFrees = 0
    /\ jPretty = FALSE
    /\ jPrevVal = VInvalid
    /\ jPrevText = <<>>

\* which register holds the newer content
Have ==
    IF jTrail[Len(jTrail)].op \in {"value", "fromJSON"} THEN "value" ELSE "text"

\* cJSON *obj = cJSON_Parse(json)
FromJSONParse ==
    /\ jPc = "idle"
    /\ Have = "text"
    /\ Len(jTrail) <= MaxCalls
    /\ \E hasOk \in BOOLEAN : jHasOk' = hasOk
    /\ jObj' = cJSON_Parse(jText)
    /\ jAllocs' = Len(jObj')
    /\ jFrees' = 0
    /\ jPc' = "fromJSON:parsed"
    /\ UNCHANGED <<fmtVars, lifeVars, castUB, jText, jVal, jOk, jPretty, jPrevVal, jPrevText, jTrail>>

\* if (!obj) { if (ok) *ok = false; return Value(); }
FromJSONFail ==
    /\ jPc = "fromJSON:parsed"
    /\ jObj = <<>>
    /\ jOk' = IF jHasOk THEN "false" ELSE jOk
    /\ jPrevVal' = jVal
    /\ jVal' = VInvalid
    /\ jTrail' = Append(jTrail, Call("fromJSON", FALSE))
    /\ jPc' = "idle"
    /\ UNCHANGED <<fmtVars, lifeVars, castUB, jText, jHasOk, jObj, jAllocs, jFrees, jPretty, jPrevText>>

\* const Value ret = ::fromCJSON(obj); if (ok) *ok = true;
FromJSONConvert ==
    /\ jPc = "fromJSON:parsed"
    /\ jObj # <<>>
    /\ jPrevVal' = jVal
    /\ jVal' = fromCJSON(jObj[1])
    /\ jOk' = IF jHasOk THEN "true" ELSE jOk
    /\ jPc' = "fromJSON:converted"
    /\ UNCHANGED <<fmtVars, lifeVars, castUB, jText, jHasOk, jObj, jAllocs, jFrees, jPretty, jPrevText, jTrail>>

\* fromJSON returning without cJSON_Delete(obj)
FromJSONDelete_Missing ==
    /\ jPc = "fromJSON:converted"
    /\ jTrail' = Append(jTrail, Call("fromJSON", TRUE))
    /\ jPc' = "idle"
    /\ UNCHANGED <<fmtVars, lifeVars, castUB, jText, jVal, jOk, jHasOk, jObj, jAllocs,
                   jFrees, jPretty, jPrevVal, jPrevText>>

\* cJSON_Delete(obj); return ret;
FromJSONDelete ==
    /\ jPc = "fromJSON:converted"
    /\ jObj' = <<>>
    /\ jFrees' = jFrees + 1
    /\ jTrail' = Append(jTrail, Call("fromJSON", TRUE))
    /\ jPc' = "idle"
    /\ UNCHANGED <<fmtVars, lifeVars, castUB, jText, jVal, jOk, jHasOk, jAllocs, jPretty, jPrevVal, jPrevText>>

\* cJSON *json = toCJSON(*this);
ToJSONBuild ==
    /\ jPc = "idle"
    /\ Have = "value"
    /\ Len(jTrail) <= MaxCalls
    /\ \E pretty \in BOOLEAN : jPretty' = pretty
    /\ jObj' = <<toCJSON(jVal)>>
    /\ jAllocs' = 1
    /\ jFrees' = 0
    /\ jPc' = "toJSON:built"
    /\ UNCHANGED <<fmtVars, lifeVars, castUB, jText, jVal, jOk, jHasOk, jPrevVal, jPrevText, jTrail>>

\* char *formatted = (pretty ? cJSON_Print(json) : cJSON_PrintUnformatted(json));
ToJSONPrint ==
    /\ jPc = "toJSON:built"
    /\ jPrevText' = jText
    /\ jText' = IF jPretty THEN cJSON_Print(jObj[1]) ELSE cJSON_PrintUnformatted(jObj[1])
    /\ jPc' = "toJSON:printed"
    /\ UNCHANGED <<fmtVars, lifeVars, castUB, jVal, jOk, jHasOk, jObj, jAllocs, jFrees, jPretty, jPrevVal, jTrail>>

\* cJSON_Delete(json); const String ret = formatted; free(formatted); return ret;
ToJSONDelete ==
    /\ jPc = "toJSON:printed"
    /\ jObj' = <<>>
    /\ jFrees' = jFrees + 1
    /\ jTrail' = Append(jTrail, Call("toJSON", jPretty))
    /\ jPc' = "idle"
    /\ UNCHANGED <<fmtVars, lifeVars, castUB, jText, jVal, jOk, jHasOk, jAllocs, jPretty, jPrevVal, jPrevText>>

NextJSON ==
    \/ FromJSONParse
    \/ FromJSONFail
    \/ FromJSONConvert
    \/ FromJSONDelete
    \/ ToJSONBuild
    \/ ToJSONPrint
    \/ ToJSONDelete

SpecJSON == InitJSON /\ [][NextJSON]_vars

-----------------------------------------------------------------------------
(* clear() and copy(): Values with the identity of what they own           *)

\* A Value together with the identity of its payload.  obj names the String,
\* Map or List constructed in mData (0 when the variant has none); num is
\* the trivial payload, or for Custom the payload the shared_ptr points to;
\* kids are the elements of a List, or the entries of a Map, as <<key, Value>>.
MkOwned(t, n, o, s, k) == [type |-> t, num |-> n, obj |-> o, str |-> s, kids |-> k]

OInvalid == MkOwned("Invalid", 0, 0, <<>>, <<>>)

RECURSIVE clear(_)
\* clear() without its Type_List case: the List is never destroyed
clear_WithoutListCase(v) ==
    LET below == [i \in 1..Len(v.kids) |-> clear(v.kids[i][2])]
        kidObjs == Flatten([i \in 1..Len(v.kids) |-> below[i].objs])
        kidReleased == Flatten([i \in 1..Len(v.kids) |-> below[i].released])
    IN  CASE v.type = "String" -> [objs |-> <<v.obj>>, released |-> <<>>]
          [] v.type = "Map" -> [objs |-> <<v.obj>> \o kidObjs, released |-> kidReleased]
          [] v.type = "Custom" -> [objs |-> <<>>, released |-> <<v.num>>]
          [] OTHER -> [objs |-> <<>>, released |-> <<>>]

\* Value::clear() on v: the payload objects whose destructor runs (objs, one
\* entry per run) and the Custom payloads whose shared_ptr is destroyed
\* (released); destroying a Map or List destroys its Values, each through
\* clear().  The Value is Invalid afterwards.
clear(v) ==
    LET below == [i \in 1..Len(v.kids) |-> clear(v.kids[i][2])]
        kidObjs == Flatten([i \in 1..Len(v.kids) |-> below[i].objs])
        kidReleased == Flatten([i \in 1..Len(v.kids) |-> below[i].released])
    IN  CASE v.type = "String" -> [objs |-> <<v.obj>>, released |-> <<>>]
          [] v.type = "Map" -> [objs |-> <<v.obj>> \o kidObjs, released |-> kidReleased]
          [] v.type = "List" -> [objs |-> <<v.obj>> \o kidObjs, released |-> kidReleased]
          [] v.type = "Custom" -> [objs |-> <<>>, released |-> <<v.num>>]
          [] OTHER -> [objs |-> <<>>, released |-> <<>>]

RECURSIVE copy(_, _)
RECURSIVE copyKids(_, _, _)
\* copy() without its Type_List case: the List is copied by memcpy
copy_WithoutListCase(other, next) ==
    CASE other.type = "String" ->
            [val |-> [other EXCEPT !.obj = next], next |-> next + 1, retained |-> <<>>]
      [] other.type = "Map" ->
            LET r == copyKids(other.kids, 1, [val |-> <<>>, next |-> next + 1,
                                              retained |-> <<>>])
            IN  [val |-> [other EXCEPT !.obj = next, !.kids = r.val],
                 next |-> r.next, retained |-> r.retained]
      [] other.type = "Custom" ->
            [val |-> other, next |-> next, retained |-> <<other.num>>]
      [] OTHER -> [val |-> other, next |-> next, retained |-> <<>>]

\* Value::copy(other) into an Invalid Value, next being the first unused
\* payload identity: the Value made (val), the next unused identity (next)
\* and the Custom payloads that gained a shared_ptr (retained)
copy(other, next) ==
    CASE other.type = "String" ->
            [val |-> [other EXCEPT !.obj = next], next |-> next + 1, retained |-> <<>>]
      [] other.type = "Map" ->
            LET r == copyKids(other.kids, 1, [val |-> <<>>, next |-> next + 1,
                                              retained |-> <<>>])
            IN  [val |-> [other EXCEPT !.obj = next, !.kids = r.val],
                 next |-> r.next, retained |-> r.retained]
      [] other.type = "List" ->
            LET r == copyKids(other.kids, 1, [val |-> <<>>, next |-> next + 1,
                                              retained |-> <<>>])
            IN  [val |-> [other EXCEPT !.obj = next, !.kids = r.val],
                 next |-> r.next, retained |-> r.retained]
      [] other.type = "Custom" ->
            [val |-> other, next |-> next, retained |-> <<other.num>>]
      [] OTHER -> [val |-> other, next |-> next, retained |-> <<>>]
\* the container's copy constructor: every element from k on is copied
\* through Value's copy constructor, that is copy()
copyKids(kids, k, acc) ==
    IF k > Len(kids) THEN acc
    ELSE LET r == copy(kids[k][2], acc.next)
         IN  copyKids(kids, k + 1,
                      [val |-> Append(acc.val, <<kids[k][1], r.val>>),
                       next |-> r.next,
                       retained |-> acc.retained \o r.retained])

\* number of times x occurs in the sequence s
Count(x, s) == Cardinality({i \in 1..Len(s) : s[i] = x})

\* the Values clear() and copy() act on: this and other
Slots == {1, 2}

\* trivial variants a converting constructor makes here, with their payload
TrivialKinds ==
    {MkOwned("Integer", 7, 0, <<>>, <<>>), MkOwned("Date", 9, 0, <<>>, <<>>)}

\* the key of the k-th entry of a Map built here (a, b, ...); none in a List
KeyFor(kind, k) == IF kind = "Map" THEN <<96 + k>> ELSE <<>>

\* the other specifications' variables while clear() and copy() are modelled
OthersParked == FmtParked /\ JsonParked

InitLife ==
    /\ OthersParked
    /\ slots = [s \in Slots |-> OInvalid]
    /\ nextObj = 1
    /\ nextCustom = 1
    /\ destroyed = [o \in 1..MaxObjs |-> 0]
    /\ useCount = [c \in 1..MaxCustoms |-> 0]
    /\ lastOp = [op |-> "none", dst |-> 1, src |-> 1]
    /\ aborted = FALSE

\* a Value constructed as a trivial variant in the Invalid slot d
ConstructTrivial(d) ==
    /\ ~aborted
    /\ slots[d].type = "Invalid"
    /\ \E v \in TrivialKinds : slots' = [slots EXCEPT ![d] = v]
    /\ lastOp' = [op |-> "construct", dst |-> d, src |-> d]
    /\ UNCHANGED <<fmtVars, jsonVars, nextObj, nextCustom, destroyed, useCount, aborted>>

\* Value(const String &): a String constructed in the Invalid slot d
ConstructString(d) ==
    /\ ~aborted
    /\ slots[d].type = "Invalid"
    /\ nextObj <= MaxObjs
    /\ slots' = [slots EXCEPT ![d] = MkOwned("String", 0, nextObj, <<120>>, <<>>)]
    /\ nextObj' = nextObj + 1
    /\ lastOp' = [op |-> "construct", dst |-> d, src |-> d]
    /\ UNCHANGED <<fmtVars, jsonVars, nextCustom, destroyed, useCount, aborted>>

\* Value(const std::shared_ptr<Custom> &) on a payload just made: the
\* Value's shared_ptr is its only holder
ConstructCustom(d) ==
    /\ ~aborted
    /\ slots[d].type = "Invalid"
    /\ nextCustom <= MaxCustoms
    /\ slots' = [slots EXCEPT ![d] = MkOwned("Custom", nextCustom, 0, <<>>, <<>>)]
    /\ useCount' = [useCount EXCEPT ![nextCustom] = 1]
    /\ nextCustom' = nextCustom + 1
    /\ lastOp' = [op |-> "construct", dst |-> d, src |-> d]
    /\ UNCHANGED <<fmtVars, jsonVars, nextObj, destroyed, aborted>>

\* Value(const List<Value> &) or Value(const Map<String, Value> &): a
\* container constructed in the Invalid slot d whose elements are copies of
\* the Values in the slots srcs
ConstructContainer(d, kind, srcs) ==
    LET from == [k \in 1..Len(srcs) |-> <<KeyFor(kind, k), slots[srcs[k]]>>]
        r == copyKids(from, 1, [val |-> <<>>, next |-> nextObj + 1, retained |-> <<>>])
    IN  /\ ~aborted
        /\ slots[d].type = "Invalid"
        /\ r.next <= MaxObjs + 1
        /\ slots' = [slots EXCEPT ![d] = MkOwned(kind, 0, nextObj, <<>>, r.val)]
        /\ nextObj' = r.next
        /\ useCount' = [c \in 1..MaxCustoms |-> useCount[c] + Count(c, r.retained)]
        /\ lastOp' = [op |-> "construct", dst |-> d, src |-> d]
        /\ UNCHANGED <<fmtVars, jsonVars, nextCustom, destroyed, aborted>>

\* slots[d].clear()
Clear(d) ==
    LET r == clear(slots[d])
    IN  /\ ~aborted
        /\ slots' = [slots EXCEPT ![d] = OInvalid]
        /\ destroyed' = [o \in 1..MaxObjs |-> destroyed[o] + Count(o, r.objs)]
        /\ useCount' = [c \in 1..MaxCustoms |-> useCount[c] - Count(c, r.released)]
        /\ lastOp' = [op |-> "clear", dst |-> d, src |-> d]
        /\ UNCHANGED <<fmtVars, jsonVars, nextObj, nextCustom, aborted>>

\* slots[d].copy(slots[s]) with slots[d] Invalid
Copy(d, s) ==
    LET r == copy(slots[s], nextObj)
    IN  /\ ~aborted
        /\ slots[d].type = "Invalid"
        /\ r.next <= MaxObjs + 1
        /\ slots' = [slots EXCEPT ![d] = r.val]
        /\ nextObj' = r.next
        /\ useCount' = [c \in 1..MaxCustoms |-> useCount[c] + Count(c, r.retained)]
        /\ lastOp' = [op |-> "copy", dst |-> d, src |-> s]
        /\ UNCHANGED <<fmtVars, jsonVars, nextCustom, destroyed, aborted>>

\* slots[d].copy(slots[s]) with slots[d] not Invalid: assert(isNull()) fails
CopyAsserts(d, s) ==
    /\ ~aborted
    /\ slots[d].type # "Invalid"
    /\ aborted' = TRUE
    /\ lastOp' = [op |-> "copy", dst |-> d, src |-> s]
    /\ UNCHANGED <<fmtVars, jsonVars, slots, nextObj, nextCustom, destroyed, useCount>>

NextLife ==
    \/ \E d \in Slots : ConstructTrivial(d)
    \/ \E d \in Slots : ConstructString(d)
    \/ \E d \in Slots : ConstructCustom(d)
    \/ \E d \in Slots, kind \in {"List", "Map"}, n \in 0..2 :
          \E srcs \in [1..n -> Slots] : ConstructContainer(d, kind, srcs)
    \/ \E d \in Slots : Clear(d)
    \/ \E d \in Slots, s \in Slots : Copy(d, s)
    \/ \E d \in Slots, s \in Slots : CopyAsserts(d, s)

SpecLife == InitLife /\ [][NextLife]_vars

-----------------------------------------------------------------------------
(* Properties of clear() and copy() *)

RECURSIVE OwnedObjs(_)
\* the String, Map and List payloads the Value v owns, at every level
OwnedObjs(v) ==
    (IF v.type \in {"String", "Map", "List"} THEN {v.obj} ELSE {})
    \cup UNION {OwnedObjs(v.kids[i][2]) : i \in 1..Len(v.kids)}

RECURSIVE Holders(_, _)
\* how many Values within v are Custom and hold the payload c
Holders(v, c) ==
    (IF v.type = "Custom" /\ v.num = c THEN 1 ELSE 0)
    + SumSizes([i \in 1..Len(v.kids) |-> Holders(v.kids[i][2], c)], Len(v.kids))

RECURSIVE Content(_)
\* v without the identity of its String, Map and List payloads
Content(v) ==
    [v EXCEPT !.obj = 0,
              !.kids = [i \in 1..Len(v.kids) |-> <<v.kids[i][1], Content(v.kids[i][2])>>]]

\* the variants whose payload is copied bit for bit
IsTrivial(v) == v.type \in {"Boolean", "Integer", "Double", "Date", "Undefined"}

\* every payload constructed is destroyed at most once, and exactly those no
\* Value holds have been destroyed; every Custom payload's use count is the
\* number of Custom Values holding it; the Value cleared last is Invalid
LifetimeInvariant ==
    /\ \A o \in 1..MaxObjs :
          /\ destroyed[o] <= 1
          /\ destroyed[o] = 1 <=>
                (o < nextObj /\ \A s \in Slots : o \notin OwnedObjs(slots[s]))
    /\ \A c \in 1..MaxCustoms :
          useCount[c] = SumSizes([s \in Slots |-> Holders(slots[s], c)],
                                 Cardinality(Slots))
    /\ lastOp.op = "clear" => slots[lastOp.dst].type = "Invalid"

\* clear() on a Value with a trivial or Invalid tag destroys nothing
TrivialClearStep ==
    (lastOp'.op = "clear"
        /\ (IsTrivial(slots[lastOp'.dst]) \/ slots[lastOp'.dst].type = "Invalid")) =>
        /\ destroyed' = destroyed
        /\ useCount' = useCount

\* C3: under clear() and copy() on Invalid destinations, every String, Map
\* and List payload constructed is destroyed at most once and is destroyed
\* once no Value holds it, each Custom payload's reference count is the
\* number of Custom Values holding it, clear() leaves the tag Invalid, and
\* clear() on a trivial or Invalid Value destroys nothing.
C3_Lifetime == [](~aborted => LifetimeInvariant) /\ [][TrivialClearStep]_vars

\* a List holding a String has been cleared while the other Value still
\* holds its own payload
C3_Witness ==
    /\ lastOp.op = "clear"
    /\ ~aborted
    /\ Cardinality({o \in 1..MaxObjs : destroyed[o] = 1}) >= 2
    /\ \E s \in Slots : slots[s].type = "List" /\ Len(slots[s].kids) = 1

\* what copy() on an Invalid destination does, d and s being the slots of
\* the destination and of other
CopyStep(d, s) ==
    /\ ~aborted'
    /\ slots'[d].type = slots[s].type
    /\ \A t \in Slots \ {d} : slots'[t] = slots[t]
    /\ Content(slots'[d]) = Content(slots[s])
    /\ slots[s].type \in {"String", "Map", "List"} =>
          /\ \A t \in Slots \ {d} : OwnedObjs(slots'[d]) \cap OwnedObjs(slots'[t]) = {}
          /\ \A o \in OwnedObjs(slots'[d]) : o >= nextObj /\ destroyed'[o] = 0
    /\ slots[s].type = "Custom" =>
          /\ slots'[d].num = slots[s].num
          /\ nextCustom' = nextCustom
          /\ useCount'[slots[s].num] = useCount[slots[s].num] + 1
    /\ IsTrivial(slots[s]) => slots'[d].num = slots[s].num

\* clear() or a construction on one Value leaves every other Value, and
\* what it owns, as it was
OthersKeptStep ==
    lastOp'.op \in {"clear", "construct"} =>
        \A t \in Slots \ {lastOp'.dst} :
            /\ slots'[t] = slots[t]
            /\ \A o \in OwnedObjs(slots[t]) : destroyed'[o] = destroyed[o]
            /\ \A c \in 1..MaxCustoms : Holders(slots[t], c) > 0 => useCount'[c] > 0

\* C4: copy(other) on an Invalid destination sets the destination's tag to
\* other's and leaves other unchanged; a String, Map or List is copied deep,
\* so that clearing or re-initialising either Value leaves the other's tag
\* and payload unchanged; a Custom payload is shared, with one more holder;
\* a trivial payload is equal; copy() on a destination that is not Invalid
\* fails its assertion.
C4_CopyEffect ==
    [][/\ lastOp'.op = "copy" =>
             IF slots[lastOp'.dst].type = "Invalid"
             THEN CopyStep(lastOp'.dst, lastOp'.src)
             ELSE aborted' /\ slots' = slots
       /\ OthersKeptStep]_vars

\* a List holding a String has been copied from slot 1 into slot 2, the
\* copy owning a List and a String of its own
C4_Witness ==
    /\ lastOp = [op |-> "copy", dst |-> 2, src |-> 1]
    /\ ~aborted
    /\ slots[1].type = "List"
    /\ Len(slots[1].kids) = 1
    /\ slots[1].kids[1][2].type = "String"
    /\ Content(slots[2]) = Content(slots[1])
    /\ slots[2].obj # slots[1].obj
    /\ slots[2].kids[1][2].obj # slots[1].kids[1][2].obj

-----------------------------------------------------------------------------
(* Properties of fromJSON and toJSON *)

\* the last completed call, and the ones before it
LastCall(k) == jTrail[Len(jTrail) - k]

RECURSIVE OnlyJSONKinds(_)
\* v is built only from Boolean, Integer, Double, String, List and Map
OnlyJSONKinds(v) ==
    /\ v.type \in {"Boolean", "Integer", "Double", "String", "List", "Map"}
    /\ \A i \in 1..Len(v.list) : OnlyJSONKinds(v.list[i])
    /\ \A i \in 1..Len(v.map) : OnlyJSONKinds(v.map[i][2])

RECURSIVE NoIntValuedDouble(_)
\* no Double of v holds a number that an int holds exactly
NoIntValuedDouble(v) ==
    /\ v.type = "Double" =>
          ~(v.num % 2 = 0 /\ v.num \div 2 >= IntMin /\ v.num \div 2 <= IntMax)
    /\ \A i \in 1..Len(v.list) : NoIntValuedDouble(v.list[i])
    /\ \A i \in 1..Len(v.map) : NoIntValuedDouble(v.map[i][2])

RECURSIVE NoNulByte(_)
\* no String and no Map key of v holds a NUL byte
NoNulByte(v) ==
    /\ \A i \in 1..Len(v.str) : v.str[i] # 0
    /\ \A i \in 1..Len(v.list) : NoNulByte(v.list[i])
    /\ \A i \in 1..Len(v.map) :
          /\ \A j \in 1..Len(v.map[i][1]) : v.map[i][1][j] # 0
          /\ NoNulByte(v.map[i][2])

\* fromJSON has just returned from the text that toJSON(false) made of jPrevVal
RoundTripDone ==
    /\ jPc = "idle"
    /\ Len(jTrail) >= 3
    /\ LastCall(0).op = "fromJSON"
    /\ LastCall(1) = Call("toJSON", FALSE)

\* C1 as stated: for every value v built only from Boolean, Integer, Double,
\* String, List and Map, fromJSON(v.toJSON(false)) reports ok = true and
\* returns a value equal to v at every node.
C1_RoundTripAsStated ==
    (RoundTripDone /\ OnlyJSONKinds(jPrevVal)) =>
        /\ LastCall(0).flag
        /\ jHasOk => jOk = "true"
        /\ jVal = jPrevVal

\* C1 amended: the same for every such value in which no Double holds a
\* number that an int holds exactly and no String or Map key holds a NUL byte.
C1_RoundTrip ==
    (RoundTripDone /\ OnlyJSONKinds(jPrevVal) /\ NoIntValuedDouble(jPrevVal)
        /\ NoNulByte(jPrevVal)) =>
        /\ LastCall(0).flag
        /\ jHasOk => jOk = "true"
        /\ jVal = jPrevVal

\* a Map of an Integer and a 5.5 has come back equal from the round trip
C1_Witness ==
    /\ RoundTripDone
    /\ jPrevVal = VMap(<< <<(<<97>>), VInt(5)>>, <<(<<98>>), VDouble(11)>> >>)
    /\ jVal = jPrevVal
    /\ jHasOk
    /\ jOk = "true"

\* C2: fromJSON always runs to its return; when cJSON_Parse rejects the
\* text it creates no tree, returns Invalid and sets ok to false; when it
\* accepts, fromJSON returns fromCJSON(root), sets ok to true and deletes the
\* tree exactly once; no tree is held after the call.
C2_FromJSONOutcome ==
    /\ jFrees <= jAllocs
    /\ jPc \in {"fromJSON:parsed", "fromJSON:converted"} => ENABLED NextJSON
    /\ (jPc = "idle" /\ LastCall(0).op = "fromJSON") =>
          LET root == cJSON_Parse(jText)
          IN  /\ jObj = <<>>
              /\ IF root = <<>>
                 THEN /\ ~LastCall(0).flag
                      /\ jVal = VInvalid
                      /\ jHasOk => jOk = "false"
                      /\ jAllocs = 0
                      /\ jFrees = 0
                 ELSE /\ LastCall(0).flag
                      /\ jVal = fromCJSON(root[1])
                      /\ jHasOk => jOk = "true"
                      /\ jAllocs = 1
                      /\ jFrees = 1

\* fromJSON has rejected the text [1, and reported it
C2_Witness ==
    /\ jPc = "idle"
    /\ LastCall(0) = Call("fromJSON", FALSE)
    /\ jText = <<91, 49, 44>>
    /\ jOk = "false"
    /\ jVal = VInvalid
    /\ jAllocs = 0

\* what C8 states of a Number item: Integer when an int holds the number
\* exactly, Double of the same number otherwise
NumberTyped(item, v) ==
    item.type = "Number" =>
        LET d == item.valuedouble
        IN  IF d % 2 = 0 /\ d \div 2 >= IntMin /\ d \div 2 <= IntMax
            THEN v = VInt(d \div 2)
            ELSE v = VDouble(d)

\* C8: fromCJSON turns a Number item into Integer(n) when the number is
\* exactly the int n and into Double of the same number otherwise: 5 and
\* 5.0 give Integer(5), 5.5 gives Double(5.5), and a number beyond int's
\* range or with a fraction never comes back as an Integer.
C8_NumberTyping ==
    jPc = "fromJSON:converted" =>
        /\ NumberTyped(jObj[1], jVal)
        /\ jObj[1].type = "Array" =>
              \A i \in 1..Len(jObj[1].child) :
                  NumberTyped(jObj[1].child[i], jVal.list[i])
        /\ jText = <<53>> => jVal = VInt(5)
        /\ jText = <<53, 46, 48>> => jVal = VInt(5)
        /\ jText = <<53, 46, 53>> => jVal = VDouble(11)

\* fromCJSON has turned the number of the text 5.0 into Integer(5)
C8_Witness ==
    /\ jPc = "fromJSON:converted"
    /\ jText = <<53, 46, 48>>
    /\ jObj[1].type = "Number"
    /\ jVal = VInt(5)

\* fromJSON, toJSON(p), fromJSON, toJSON(p) have just run in this order, the
\* first fromJSON on a text it accepted
TwoPassesDone ==
    /\ jPc = "idle"
    /\ Len(jTrail) >= 5
    /\ LastCall(3) = Call("fromJSON", TRUE)
    /\ LastCall(2).op = "toJSON"
    /\ LastCall(1).op = "fromJSON"
    /\ LastCall(0) = LastCall(2)

\* C9: for every valid JSON text t and either pretty, with
\* s1 = fromJSON(t).toJSON(pretty) and s2 = fromJSON(s1).toJSON(pretty),
\* s2 is s1 byte for byte; and on every parse tree n,
\* toCJSON(fromCJSON(toCJSON(fromCJSON(n)))) is toCJSON(fromCJSON(n)).
C9_Reserialization ==
    /\ TwoPassesDone => (LastCall(1).flag /\ jText = jPrevText)
    /\ (jPc = "fromJSON:parsed" /\ jObj # <<>>) =>
          LET once == toCJSON(fromCJSON(jObj[1]))
          IN  toCJSON(fromCJSON(once)) = once

\* a text holding an Object has gone through both passes with pretty = true
C9_Witness ==
    /\ TwoPassesDone
    /\ jTrail[1].op = "text"
    /\ jPretty
    /\ jVal.type = "Map"
    /\ Len(jVal.map) = 2
    /\ jText = jPrevText

-----------------------------------------------------------------------------
(* Properties of the formatters *)

\* the escape table as documented, per byte
DocumentedEscape(b) ==
    CASE b = 8 -> <<92, 98>>
      [] b = 12 -> <<92, 102>>
      [] b = 10 -> <<92, 110>>
      [] b = 9 -> <<92, 116>>
      [] b = 13 -> <<92, 114>>
      [] b = 34 -> <<92, 34>>
      [] b = 92 -> <<92, 92>>
      [] OTHER -> IF b < 32 \/ b = 127
                  THEN <<92, 117, 48, 48, HexDigit(b \div 16), HexDigit(b % 16)>>
                  ELSE <<b>>

\* C5: the chunks JSONFormatter emits for a String s concatenate to a quote,
\* the documented escape of every byte of s in order, and a quote; bytes
\* that need no escape (those above 127 included) pass through unchanged.
C5_EscapingAsDocumented ==
    (fmtPc = "json" /\ fmtIn.type = "String") =>
        Flatten(fmtOut) =
            <<34>> \o Flatten([i \in 1..Len(fmtIn.str) |-> DocumentedEscape(fmtIn.str[i])])
                   \o <<34>>

\* the list [1, "x"]
ListOneX == VList(<<VInt(1), VString(<<120>>)>>)

\* C6: Value::format() renders a List as "[ ", its formatted elements
\* separated by ", ", and " ]"; the list [1, "x"] renders as "[ 1, x ]".
C6_IndentedListLayout ==
    (fmtPc = "string" /\ fmtIn.type = "List") =>
        /\ FormatterToString(fmtOut) =
              <<91, 32>>
              \o JoinWith(<<44, 32>>,
                          [i \in 1..Len(fmtIn.list) |->
                              Flatten(StringFormat(fmtIn.list[i], 0, <<>>))])
              \o <<32, 93>>
        /\ fmtIn = ListOneX =>
              FormatterToString(fmtOut) = <<91, 32, 49, 44, 32, 120, 32, 93>>

RECURSIVE DocumentedMapLines(_, _)
\* the lines documented for a Map at Map-nesting depth d: per entry d-1
\* blanks, the key, ": ", the value (a nested Map at depth d+1, anything
\* else inline) and a newline
DocumentedMapLines(m, d) ==
    Flatten([k \in 1..Len(m) |->
        [i \in 1..(d - 1) |-> 32] \o m[k][1] \o <<58, 32>>
        \o (IF m[k][2].type = "Map"
            THEN DocumentedMapLines(m[k][2].map, d + 1)
            ELSE Flatten(StringFormat(m[k][2], d, <<>>)))
        \o <<10>>])

\* C7: Value::format() renders every entry of a Map at Map-nesting depth d
\* as d-1 blanks, the key, ": ", the formatted value and a newline.
C7_IndentedMapLayout ==
    (fmtPc = "string" /\ fmtIn.type = "Map") =>
        FormatterToString(fmtOut) = DocumentedMapLines(fmtIn.map, 1)

\* C10: the chunks JSONFormatter emits for a List concatenate to "[", the
\* JSON-formatted elements in order joined by ",", and "]"; for a Map to
\* "{", the entries in iteration order, each the escaped quoted key, ":"
\* and the JSON-formatted value, joined by ",", and "}"; so no leading or
\* trailing comma, "[]" and "{}" when empty, and [1,"x"] for the list [1, "x"].
C10_JSONComposites ==
    fmtPc = "json" =>
        /\ fmtIn.type = "List" =>
              Flatten(fmtOut) =
                  <<91>>
                  \o JoinWith(<<44>>, [i \in 1..Len(fmtIn.list) |->
                                          Flatten(JSONFormat(fmtIn.list[i], <<>>))])
                  \o <<93>>
        /\ fmtIn.type = "Map" =>
              Flatten(fmtOut) =
                  <<123>>
                  \o JoinWith(<<44>>, [k \in 1..Len(fmtIn.map) |->
                                          Flatten(Escape(fmtIn.map[k][1], <<>>))
                                          \o <<58>>
                                          \o Flatten(JSONFormat(fmtIn.map[k][2], <<>>))])
                  \o <<125>>
        /\ fmtIn = VList(<<>>) => Flatten(fmtOut) = <<91, 93>>
        /\ fmtIn = VMap(<<>>) => Flatten(fmtOut) = <<123, 125>>
        /\ fmtIn = ListOneX => Flatten(fmtOut) = <<91, 49, 44, 34, 120, 34, 93>>

\* JSONFormatter has run on a Map of two entries and on nothing else
C10_Witness ==
    /\ fmtPc = "json"
    /\ fmtIn.type = "Map"
    /\ Len(fmtIn.map) = 2
    /\ fmtIn.map[2][2].type = "Integer"
    /\ Flatten(fmtOut) # <<>>

=============================================================================
